---- MODULE Spec2Model ----
EXTENDS Integers, Naturals, Sequences, FiniteSets, TLC

(***************************************************************************)
(* Light action of the Stream Deck plugin (src/src/actions/light.ts).     *)
(* The persisted settings live in the host; getSettings / setSettings are *)
(* messages over one ordered channel, processed by the host in order.     *)
(* Each handler runs atomically between its awaits.                       *)
(***************************************************************************)

VARIABLES
  settings,      \* persisted settings record in the host
  showValue,     \* settings.showValue (never written by the handlers)
  queue,         \* plugin -> host messages (getSettings / setSettings)
  presses,       \* number of key-down events so far
  held,          \* key physically down
  kdpc,          \* onKeyDown position per press
  kupc,          \* onKeyUp position per press
  kuSnap,        \* onKeyUp's `settings` constant per press
  kuColor,       \* onKeyUp's picked `color` per press
  timerFired,    \* the setTimeout of the press has fired
  upBeforeTimer, \* onKeyUp of the press started before its timer fired
  picks,         \* pick-color.exe invocations per press
  longDisp,      \* changeLampColor calls from onKeyDown per press
  longColor,     \* colour dispatched by onKeyDown per press
  shortDisp,     \* changeLampColor calls from onKeyUp per press
  title,         \* current button title
  image,         \* current button image
  appears,       \* onWillAppear events so far
  r, g, b, out,  \* inputs / output of the rgb-to-hex expression
  ids, seps, lights, requests, reqStatus, propagated, logged, lampPc

pressVars == <<settings, showValue, queue, presses, held, kdpc, kupc, kuSnap,
               kuColor, timerFired, upBeforeTimer, picks, longDisp, longColor,
               shortDisp, title, image, appears>>
hexVars == <<r, g, b, out>>
lampVars == <<ids, seps, lights, requests, reqStatus, propagated, logged, lampPc>>
vars == <<pressVars, hexVars, lampVars>>

(***************************************************************************)
(* JavaScript number helpers                                               *)
(***************************************************************************)
\* x << k for 1 <= k <= 24 (ToInt32 of x * 2^k, two's complement, 32 bits),
\* computed on the low 32 - k bits of x so that no intermediate exceeds 2^31
Shl(x, k) ==
  LET m == x % (2^(32 - k)) IN
  IF m >= 2^(31 - k) THEN (m - 2^(32 - k)) * (2^k) ELSE m * (2^k)

LowerDigits == <<"0","1","2","3","4","5","6","7","8","9","a","b","c","d","e","f">>
UpperDigits == <<"0","1","2","3","4","5","6","7","8","9","A","B","C","D","E","F">>
DecDigits == <<"0","1","2","3","4","5","6","7","8","9">>

RECURSIVE ToStringRadix(_, _, _)
ToStringRadix(n, base, digits) ==
  IF n < base THEN <<digits[n + 1]>>
  ELSE ToStringRadix(n \div base, base, digits) \o <<digits[(n % base) + 1]>>

\* Number.prototype.toString(16)
ToString16(n) ==
  IF n < 0 THEN <<"-">> \o ToStringRadix(-n, 16, LowerDigits)
  ELSE ToStringRadix(n, 16, LowerDigits)

\* String.prototype.slice(1)
Slice1(s) == IF Len(s) = 0 THEN <<>> ELSE Tail(s)

ToUpperChar(c) ==
  IF \E i \in 1..16 : LowerDigits[i] = c
  THEN UpperDigits[CHOOSE i \in 1..16 : LowerDigits[i] = c]
  ELSE c

\* String.prototype.toUpperCase()
ToUpperCase(s) == [i \in 1..Len(s) |-> ToUpperChar(s[i])]

\* the expression without the (1 << 24) padding term
HexNoPad(color) ==
  <<"#">> \o ToUpperCase(Slice1(ToString16(
      Shl(color[1], 16) + Shl(color[2], 8) + color[3])))

\* "#" + ((1 << 24) + (color[0] << 16) + (color[1] << 8) + color[2])
\*       .toString(16).slice(1).toUpperCase()
Hex(color) ==
  <<"#">> \o ToUpperCase(Slice1(ToString16(
      Shl(1, 24) + Shl(color[1], 16) + Shl(color[2], 8) + color[3])))

\* Array.prototype.toString() of a number array
RECURSIVE JoinNums(_)
JoinNums(a) ==
  IF Len(a) = 0 THEN <<>>
  ELSE IF Len(a) = 1 THEN ToStringRadix(a[1], 10, DecDigits)
  ELSE ToStringRadix(a[1], 10, DecDigits) \o <<",">> \o JoinNums(Tail(a))

DefaultTitle == <<"Color\nPicker">>

\* setTitle(settings, change): the title passed to change
SetTitle(s, sv) ==
  IF sv = "hex" /\ Len(s.colorHex) > 0 THEN s.colorHex
  ELSE IF sv = "rgb" THEN JoinNums(s.colorRgb)
  ELSE DefaultTitle

\* a store into png.data (a Uint8 Buffer): the value is taken mod 256
ToUint8(x) == x % 256

\* createPngBase64([r, g, b]): a 128x128 image filled with the colour
CreatePng(color) ==
  [width |-> 128, height |-> 128,
   fill |-> <<ToUint8(color[1]), ToUint8(color[2]), ToUint8(color[3])>>]


(***************************************************************************)
(* Press handling: onKeyDown / onKeyUp                                     *)
(***************************************************************************)
MaxPresses == 1

MaxAppears == 1

Press == 1..MaxPresses

InitColor == <<0, 0, 0>>

\* Outputs of pick-color.exe: a JSON colour, possibly out of range, or a
\* failed process (execFileAsync rejects) / unparsable stdout.
PickOutcomes == {[ok |-> TRUE, color |-> <<255, 0, 128>>],
                 [ok |-> TRUE, color |-> <<256, 0, 0>>],
                 [ok |-> FALSE, color |-> <<>>]}

ShowValues == {"hex", "rgb", "none"}

NoRec == [isDown |-> FALSE, longPress |-> FALSE, colorRgb |-> <<>>, colorHex |-> <<>>]

GetMsg(who, p) == [op |-> "get", who |-> who, p |-> p, rec |-> NoRec]

SetMsg(p, rec) == [op |-> "set", who |-> "none", p |-> p, rec |-> rec]

InitPress ==
  /\ settings = [isDown |-> FALSE, longPress |-> FALSE,
                 colorRgb |-> InitColor, colorHex |-> Hex(InitColor)]
  /\ showValue \in ShowValues
  /\ queue = <<>>
  /\ presses = 0
  /\ held = FALSE
  /\ kdpc = [p \in Press |-> "idle"]
  /\ kupc = [p \in Press |-> "idle"]
  /\ kuSnap = [p \in Press |-> NoRec]
  /\ kuColor = [p \in Press |-> <<>>]
  /\ timerFired = [p \in Press |-> FALSE]
  /\ upBeforeTimer = [p \in Press |-> FALSE]
  /\ picks = [p \in Press |-> 0]
  /\ longDisp = [p \in Press |-> 0]
  /\ longColor = [p \in Press |-> <<>>]
  /\ shortDisp = [p \in Press |-> 0]
  /\ title = SetTitle(settings, showValue)
  /\ image = CreatePng(InitColor)
  /\ appears = 0

\* onKeyDown entry: getSettings() is requested
OnKeyDown ==
  /\ ~held /\ presses < MaxPresses
  /\ LET p == presses + 1 IN
     /\ held' = TRUE
     /\ presses' = p
     /\ kdpc' = [kdpc EXCEPT ![p] = "get1"]
     /\ queue' = Append(queue, GetMsg("kd1", p))
  /\ UNCHANGED <<settings, showValue, kupc, kuSnap, kuColor, timerFired,
                 upBeforeTimer, picks, longDisp, longColor, shortDisp, title, image, appears>>

\* host answers onKeyDown's first getSettings; the continuation writes
\* {...settings, isDown: true} (not awaited) and starts the timer
HostGetKeyDown ==
  /\ queue /= <<>> /\ Head(queue).op = "get" /\ Head(queue).who = "kd1"
  /\ LET p == Head(queue).p IN
     /\ queue' = Append(Tail(queue), SetMsg(p, [settings EXCEPT !.isDown = TRUE]))
     /\ kdpc' = [kdpc EXCEPT ![p] = "wait"]
  /\ UNCHANGED <<settings, showValue, presses, held, kupc, kuSnap, kuColor,
                 timerFired, upBeforeTimer, picks, longDisp, longColor,
                 shortDisp, title, image, appears>>

\* setTimeout(resolve, settings.delay) fires; getSettings() is requested
TimerFire(p) ==
  /\ kdpc[p] = "wait"
  /\ kdpc' = [kdpc EXCEPT ![p] = "get2"]
  /\ timerFired' = [timerFired EXCEPT ![p] = TRUE]
  /\ queue' = Append(queue, GetMsg("kd2", p))
  /\ UNCHANGED <<settings, showValue, presses, held, kupc, kuSnap, kuColor,
                 upBeforeTimer, picks, longDisp, longColor, shortDisp, title, image, appears>>

\* host answers the timer's getSettings; if (!settings.isDown) return;
\* else setSettings({...settings, longPress: true}) and
\* changeLampColor(settings.colorRgb, settings)
HostGetTimer ==
  /\ queue /= <<>> /\ Head(queue).op = "get" /\ Head(queue).who = "kd2"
  /\ LET p == Head(queue).p IN
     /\ kdpc' = [kdpc EXCEPT ![p] = "done"]
     /\ IF ~settings.isDown
        THEN /\ queue' = Tail(queue)
             /\ UNCHANGED <<longDisp, longColor>>
        ELSE /\ queue' = Append(Tail(queue), SetMsg(p, [settings EXCEPT !.longPress = TRUE]))
             /\ longDisp' = [longDisp EXCEPT ![p] = @ + 1]
             /\ longColor' = [longColor EXCEPT ![p] = settings.colorRgb]
  /\ UNCHANGED <<settings, showValue, presses, held, kupc, kuSnap, kuColor,
                 timerFired, upBeforeTimer, picks, shortDisp, title, image, appears>>

\* onKeyUp entry: getSettings() is requested
OnKeyUp ==
  /\ held
  /\ LET p == presses IN
     /\ held' = FALSE
     /\ kupc' = [kupc EXCEPT ![p] = "get"]
     /\ upBeforeTimer' = [upBeforeTimer EXCEPT ![p] = ~timerFired[p]]
     /\ queue' = Append(queue, GetMsg("ku", p))
  /\ UNCHANGED <<settings, showValue, presses, kdpc, kuSnap, kuColor,
                 timerFired, picks, longDisp, longColor, shortDisp, title, image, appears>>

\* host answers onKeyUp's getSettings; await setSettings({...settings, isDown: false})
HostGetKeyUp ==
  /\ queue /= <<>> /\ Head(queue).op = "get" /\ Head(queue).who = "ku"
  /\ LET p == Head(queue).p IN
     /\ kuSnap' = [kuSnap EXCEPT ![p] = settings]
     /\ queue' = Append(Tail(queue), SetMsg(p, [settings EXCEPT !.isDown = FALSE]))
     /\ kupc' = [kupc EXCEPT ![p] = "afterSet"]
  /\ UNCHANGED <<settings, showValue, presses, held, kdpc, kuColor, timerFired,
                 upBeforeTimer, picks, longDisp, longColor, shortDisp, title, image, appears>>

\* after the awaited setSettings: short press starts pick-color.exe,
\* long press writes {...settings, longPress: false}
KeyUpBranch(p) ==
  /\ kupc[p] = "afterSet"
  /\ IF ~kuSnap[p].longPress
     THEN /\ kupc' = [kupc EXCEPT ![p] = "pick"]
          /\ picks' = [picks EXCEPT ![p] = @ + 1]
          /\ UNCHANGED queue
     ELSE /\ kupc' = [kupc EXCEPT ![p] = "done"]
          /\ queue' = Append(queue, SetMsg(p, [kuSnap[p] EXCEPT !.longPress = FALSE]))
          /\ UNCHANGED picks
  /\ UNCHANGED <<settings, showValue, presses, held, kdpc, kuSnap, kuColor,
                 timerFired, upBeforeTimer, longDisp, longColor, shortDisp, title, image, appears>>

\* a short-press write that stores the colour but not its hex
ShortPressRecNoHex(s, color) ==
  [s EXCEPT !.isDown = FALSE, !.longPress = FALSE, !.colorRgb = color]

\* the short-press write of onKeyUp
ShortPressRec(s, color) ==
  [s EXCEPT !.isDown = FALSE, !.colorHex = Hex(color), !.longPress = FALSE,
            !.colorRgb = color]

\* execFileAsync("pick-color.exe") settles; on rejection (or a JSON.parse
\* throw) the handler's promise rejects, otherwise the colour is
\* dispatched, persisted and shown
PickDone(p, o) ==
  /\ kupc[p] = "pick"
  /\ IF ~o.ok
     THEN /\ kupc' = [kupc EXCEPT ![p] = "threw"]
          /\ UNCHANGED <<queue, kuColor, shortDisp, title, image, appears>>
     ELSE /\ kupc' = [kupc EXCEPT ![p] = "done"]
          /\ kuColor' = [kuColor EXCEPT ![p] = o.color]
          /\ shortDisp' = [shortDisp EXCEPT ![p] = @ + 1]
          /\ queue' = Append(queue, SetMsg(p, ShortPressRec(kuSnap[p], o.color)))
          /\ title' = SetTitle(kuSnap[p], showValue)
          /\ image' = CreatePng(o.color)
  /\ UNCHANGED <<settings, showValue, presses, held, kdpc, kuSnap, timerFired,
                 upBeforeTimer, picks, longDisp, longColor, appears>>

\* host applies a setSettings
HostSet ==
  /\ queue /= <<>> /\ Head(queue).op = "set"
  /\ settings' = Head(queue).rec
  /\ queue' = Tail(queue)
  /\ UNCHANGED <<showValue, presses, held, kdpc, kupc, kuSnap, kuColor,
                 timerFired, upBeforeTimer, picks, longDisp, longColor,
                 shortDisp, title, image, appears>>

\* onDidReceiveSettings: setTitle(ev.payload.settings, ...)
OnDidReceiveSettings ==
  /\ title' = SetTitle(settings, showValue)
  /\ UNCHANGED <<settings, showValue, queue, presses, held, kdpc, kupc, kuSnap,
                 kuColor, timerFired, upBeforeTimer, picks, longDisp, longColor,
                 shortDisp, image, appears>>

\* onWillAppear: getSettings() is requested
OnWillAppear ==
  /\ appears < MaxAppears
  /\ appears' = appears + 1
  /\ queue' = Append(queue, GetMsg("wa", 0))
  /\ UNCHANGED <<settings, showValue, presses, held, kdpc, kupc, kuSnap,
                 kuColor, timerFired, upBeforeTimer, picks, longDisp, longColor,
                 shortDisp, title, image>>

\* host answers onWillAppear's getSettings; the .then callback calls
\* setTitle(settings, ...) and setImage(createPngBase64(settings.colorRgb))
HostGetWillAppear ==
  /\ queue /= <<>> /\ Head(queue).op = "get" /\ Head(queue).who = "wa"
  /\ queue' = Tail(queue)
  /\ title' = SetTitle(settings, showValue)
  /\ image' = CreatePng(settings.colorRgb)
  /\ UNCHANGED <<settings, showValue, presses, held, kdpc, kupc, kuSnap,
                 kuColor, timerFired, upBeforeTimer, picks, longDisp, longColor,
                 shortDisp, appears>>

NextPress ==
  \/ OnWillAppear
  \/ HostGetWillAppear
  \/ OnKeyDown
  \/ HostGetKeyDown
  \/ \E p \in Press : TimerFire(p)
  \/ HostGetTimer
  \/ OnKeyUp
  \/ HostGetKeyUp
  \/ \E p \in Press : KeyUpBranch(p)
  \/ \E p \in Press, o \in PickOutcomes : PickDone(p, o)
  \/ HostSet
  \/ OnDidReceiveSettings


(***************************************************************************)
(* changeLampColor(color, settings)                                        *)
(***************************************************************************)
MaxLights == 2

IdSet == {<<"k", "b">>}

Separators == {<<",">>, <<",", " ">>}

LampColor == <<255, 0, 128>>

Url == "http://ha"

Token == "tok"

\* an element of String.prototype.split's result: a string or undefined
Str(x) == [undef |-> FALSE, s |-> x]

Undef == [undef |-> TRUE, s |-> <<>>]

\* settings.lights.split(/,( )?/): the capture group's value is spliced
\* into the result after every separator (" " or undefined)
RECURSIVE SplitAcc(_, _, _)
SplitAcc(str, cur, acc) ==
  IF Len(str) = 0 THEN Append(acc, Str(cur))
  ELSE IF Head(str) = ","
  THEN IF Len(str) > 1 /\ str[2] = " "
       THEN SplitAcc(Tail(Tail(str)), <<>>, acc \o <<Str(cur), Str(<<" ">>)>>)
       ELSE SplitAcc(Tail(str), <<>>, acc \o <<Str(cur), Undef>>)
  ELSE SplitAcc(Tail(str), Append(cur, Head(str)), acc)

SplitLights(str) == SplitAcc(str, <<>>, <<>>)

RECURSIVE JoinLights(_, _)
JoinLights(is, ss) ==
  IF Len(is) = 1 THEN is[1]
  ELSE is[1] \o ss[1] \o JoinLights(Tail(is), Tail(ss))

\* the request fetch() is called with for one light
Request(light, color) ==
  [url |-> Url \o "/api/services/light/turn_on", method |-> "POST",
   auth |-> "Bearer " \o Token, entity_id |-> light, rgb_color |-> color]

\* fetch(...).then((response) => response.json()).then((data) => {})
\* .catch((error) => console.error("Error:", error)): the links of the
\* promise chain of one request, in order. "source" is the fetch promise;
\* mayFail says whether the link's own callback (or the request) can reject.
ChainNoCatch ==
  <<[kind |-> "source", mayFail |-> TRUE],
    [kind |-> "then", mayFail |-> TRUE],
    [kind |-> "then", mayFail |-> FALSE]>>

Chain ==
  <<[kind |-> "source", mayFail |-> TRUE],
    [kind |-> "then", mayFail |-> TRUE],
    [kind |-> "then", mayFail |-> FALSE],
    [kind |-> "catch", mayFail |-> FALSE]>>

\* a request whose chain has not settled any link yet
Pending == [pos |-> 0, st |-> "ok", logged |-> FALSE]

\* the promise of the next link settles. A fulfilled promise runs a then
\* callback (which may reject) and skips a catch; a rejected one skips then
\* callbacks and runs a catch callback, which logs and fulfils.
SettleLink(req, fails) ==
  LET link == Chain[req.pos + 1] IN
  IF link.kind = "source"
  THEN [req EXCEPT !.pos = @ + 1, !.st = IF fails THEN "err" ELSE "ok"]
  ELSE IF link.kind = "then"
  THEN IF req.st = "ok"
       THEN [req EXCEPT !.pos = @ + 1, !.st = IF fails THEN "err" ELSE "ok"]
       ELSE [req EXCEPT !.pos = @ + 1]
  ELSE IF req.st = "err"
       THEN [req EXCEPT !.pos = @ + 1, !.st = "ok", !.logged = TRUE]
       ELSE [req EXCEPT !.pos = @ + 1]

InitLamp ==
  /\ \E n \in 1..MaxLights :
       \E is \in [1..n -> IdSet], ss \in [1..(n - 1) -> Separators] :
         /\ ids = is
         /\ seps = ss
         /\ lights = JoinLights(is, ss)
  /\ requests = <<>>
  /\ reqStatus = <<>>
  /\ propagated = FALSE
  /\ logged = 0
  /\ lampPc = "idle"

\* the for loop of changeLampColor: one fetch per split element, issued
\* synchronously, none awaited
ChangeLampColor ==
  /\ lampPc = "idle"
  /\ LET parts == SplitLights(lights) IN
     /\ requests' = [i \in 1..Len(parts) |-> Request(parts[i], LampColor)]
     /\ reqStatus' = [i \in 1..Len(parts) |-> Pending]
  /\ lampPc' = "sent"
  /\ UNCHANGED <<ids, seps, lights, propagated, logged>>

\* the next link of request i's chain settles, requests in any order; a
\* chain that ends rejected is an unhandled rejection
RequestSettles(i, fails) ==
  /\ lampPc = "sent"
  /\ i \in DOMAIN reqStatus /\ reqStatus[i].pos < Len(Chain)
  /\ fails => Chain[reqStatus[i].pos + 1].mayFail
  /\ LET nxt == SettleLink(reqStatus[i], fails) IN
     /\ reqStatus' = [reqStatus EXCEPT ![i] = nxt]
     /\ propagated' = (propagated \/ (nxt.pos = Len(Chain) /\ nxt.st = "err"))
     /\ logged' = IF nxt.logged /\ ~reqStatus[i].logged THEN logged + 1 ELSE logged
  /\ UNCHANGED <<ids, seps, lights, requests, lampPc>>

NextLamp ==
  \/ ChangeLampColor
  \/ \E i \in 1..(2 * MaxLights), f \in BOOLEAN : RequestSettles(i, f)

(***************************************************************************)
(* rgb-to-hex expression on its own                                        *)
(***************************************************************************)
Channel == {0, 1, 9, 10, 15, 16, 127, 128, 240, 255}

InitHex ==
  /\ r \in Channel /\ g \in Channel /\ b \in Channel
  /\ out = <<>>

ComputeHex ==
  /\ out = <<>>
  /\ out' = Hex(<<r, g, b>>)
  /\ UNCHANGED <<r, g, b>>

(***************************************************************************)
(* Specifications                                                          *)
(***************************************************************************)
HexIdle == r = 0 /\ g = 0 /\ b = 0 /\ out = <<>>

LampIdle == ids = <<>> /\ seps = <<>> /\ lights = <<>> /\ requests = <<>>
            /\ reqStatus = <<>> /\ propagated = FALSE /\ logged = 0 /\ lampPc = "idle"

Init == InitPress /\ HexIdle /\ LampIdle

Next == NextPress /\ UNCHANGED <<hexVars, lampVars>>

Spec == Init /\ [][Next]_vars

HexInit == InitHex /\ LampIdle /\ InitPress

HexNext == ComputeHex /\ UNCHANGED <<pressVars, lampVars>>

HexSpec == HexInit /\ [][HexNext]_vars

LampInit == InitLamp /\ HexIdle /\ InitPress

LampNext == NextLamp /\ UNCHANGED <<pressVars, hexVars>>

LampSpec == LampInit /\ [][LampNext]_vars


(***************************************************************************)
(* Properties                                                              *)
(***************************************************************************)
\* both handlers of press p have finished and its writes reached the host
Settled(p) ==
  /\ p <= presses
  /\ kdpc[p] = "done"
  /\ kupc[p] \in {"done", "threw"}
  /\ \A i \in DOMAIN queue : queue[i].p /= p

ValidColor(c) == Len(c) = 3 /\ \A i \in 1..3 : c[i] \in 0..255

\* C1: a press whose key-up handler starts before its timer fires takes
\* the short path exactly once: one pick, one short dispatch, no long
\* dispatch, and longPress ends false.
C1_ShortPress ==
  \A p \in Press :
    (upBeforeTimer[p] /\ Settled(p) /\ kupc[p] = "done")
      => /\ picks[p] = 1 /\ shortDisp[p] = 1 /\ longDisp[p] = 0
         /\ (p = presses => ~settings.longPress)

\* C2: a press whose timer handler saw isDown true dispatches the stored
\* colour once and its key-up neither picks nor dispatches, and longPress
\* ends false.
C2_LongPress ==
  \A p \in Press :
    (longDisp[p] >= 1 /\ Settled(p))
      => /\ longDisp[p] = 1 /\ picks[p] = 0 /\ shortDisp[p] = 0
         /\ (p = presses => ~settings.longPress)

\* C3: every finished press took exactly one of the two paths (long
\* dispatch of the stored colour, or pick-color).
C3_ExactlyOnePath ==
  \A p \in Press : Settled(p) => longDisp[p] + picks[p] = 1

\* C4: once the key-up handler of the latest press has finished, no new
\* key-down came and all writes reached the host, isDown and longPress
\* are false.
C4_ReleasedClears ==
  (presses >= 1 /\ ~held /\ kupc[presses] = "done" /\ queue = <<>>)
    => ~settings.isDown /\ ~settings.longPress

\* C5: the persisted colorHex is always the hex formatting of the
\* persisted colorRgb.
C5_HexMatchesRgb == settings.colorHex = Hex(settings.colorRgb)

C5_Witness == settings.colorRgb = <<255, 0, 128>> /\ kupc[1] = "done"

TwoHex(x) == <<UpperDigits[(x \div 16) + 1], UpperDigits[(x % 16) + 1]>>

\* C6: for channels in [0,255] the hex expression is "#" followed by the
\* two-digit uppercase hex of r, g and b.
C6_HexFormat ==
  out /= <<>> => out = <<"#">> \o TwoHex(r) \o TwoHex(g) \o TwoHex(b)

C6_Witness == out /= <<>> /\ r = 255 /\ g = 0 /\ b = 128

\* C7: for N identifiers separated by "," or ", ", changeLampColor issues
\* exactly N requests, the i-th for the i-th identifier, all with the
\* same colour, URL and bearer token.
C7_OneRequestPerLight ==
  lampPc = "sent" =>
    /\ Len(requests) = Len(ids)
    /\ \A i \in 1..Len(ids) :
         /\ requests[i].entity_id = Str(ids[i])
         /\ requests[i].rgb_color = LampColor
         /\ requests[i].url = Url \o "/api/services/light/turn_on"
         /\ requests[i].auth = "Bearer " \o Token

\* C8: whatever the outcome and order of the requests, every request of
\* the dispatch has been issued and no failure propagates out.
C8_FailureIsolation ==
  lampPc = "sent" =>
    /\ Len(requests) = Len(SplitLights(lights))
    /\ \A i \in DOMAIN reqStatus :
         reqStatus[i].pos = Len(Chain) => reqStatus[i].st = "ok"
    /\ ~propagated

C8_Witness ==
  /\ lampPc = "sent"
  /\ \E i, j \in DOMAIN reqStatus :
       /\ reqStatus[i].pos = Len(Chain) /\ reqStatus[i].logged
       /\ reqStatus[j].pos = Len(Chain) /\ ~reqStatus[j].logged

\* C9: a failed pick (process error, unparsable or out-of-range output)
\* dispatches nothing and the error does not leave onKeyUp.
C9_PickFailure ==
  \A p \in Press :
    /\ kupc[p] /= "threw"
    /\ (shortDisp[p] > 0 => ValidColor(kuColor[p]))

\* C10: when a short press completes, the title shows the newly picked
\* colour (hex or rgb list per showValue).
C10_TitleAfterShortPress ==
  [][\A p \in Press :
       (kupc[p] = "pick" /\ kupc'[p] = "done")
         => /\ (showValue = "hex" => title' = Hex(kuColor'[p]))
            /\ (showValue = "rgb" => title' = JoinNums(kuColor'[p]))]_vars

====
